---- MODULE Spec2Model ----
(***************************************************************************)
(* Solclout instruction processor (solclout/program/src/processor.rs).     *)
(*                                                                         *)
(* Account data is modelled at the granularity of its borsh layout: three  *)
(* 32-byte Pubkey cells followed by single bytes, so that reading a record *)
(* through try_from_slice_unchecked and writing it through serialize are   *)
(* the conversions the code performs.  u64 and u128 quantities are exact   *)
(* naturals held as little-endian sequences of base-1000 limbs, reduced to *)
(* their width where the code's arithmetic is reduced.                      *)
(***************************************************************************)
EXTENDS Integers, Sequences, FiniteSets, TLC

VARIABLES data, supply, result, calls, last, overflow_checks, price_call

vars == <<data, supply, result, calls, last, overflow_checks, price_call>>

----------------------------------------------------------------------------
(* Exact arithmetic on naturals: little-endian base-1000 limbs, no leading *)
(* zero limb; <<>> is zero.                                                *)

BASE == 1000

\* the limb of a at position i, 0 beyond its length
Limb(a, i) == IF i <= Len(a) THEN a[i] ELSE 0

\* a without its leading zero limbs
BNorm(a) ==
  IF a = <<>> THEN <<>>
  ELSE IF a[Len(a)] # 0 THEN a
  ELSE IF \A i \in 1..Len(a) : a[i] = 0 THEN <<>>
  ELSE SubSeq(a, 1, CHOOSE m \in 1..Len(a) :
                      a[m] # 0 /\ \A i \in (m + 1)..Len(a) : a[i] = 0)

RECURSIVE BFromNat(_)
BFromNat(n) == IF n = 0 THEN <<>> ELSE <<n % BASE>> \o BFromNat(n \div BASE)

BShift(a, n) == IF a = <<>> THEN <<>> ELSE [i \in 1..n |-> 0] \o a

\* the carry into position i of the limb sums s: the nearest lower sum that
\* is not BASE - 1 is BASE or more
BCarry(s, i) ==
  /\ i > 1
  /\ \/ s[i - 1] >= BASE
     \/ /\ s[i - 1] = BASE - 1
        /\ \E j \in 1..(i - 2) :
             s[j] >= BASE /\ \A k \in (j + 1)..(i - 2) : s[k] = BASE - 1

\* the number whose limb sums, carries not yet passed on, are s
BAddS(s) ==
  LET limbs == [i \in 1..Len(s) |-> (s[i] + IF BCarry(s, i) THEN 1 ELSE 0) % BASE]
  IN  IF BCarry(s, Len(s) + 1) THEN limbs \o <<1>> ELSE limbs

BAdd(a, b) ==
  IF a = <<>> THEN b
  ELSE IF b = <<>> THEN a
  ELSE BAddS([i \in 1..(IF Len(a) > Len(b) THEN Len(a) ELSE Len(b)) |->
                Limb(a, i) + Limb(b, i)])

BLess(a, b) ==
  IF Len(a) # Len(b) THEN Len(a) < Len(b)
  ELSE \E i \in 1..Len(a) :
         a[i] < b[i] /\ \A k \in (i + 1)..Len(a) : a[k] = b[k]

BLeq(a, b) == ~BLess(b, a)

\* the borrow into position i of the limb differences d: the nearest lower
\* difference that is not 0 is negative
BBorrow(d, i) ==
  /\ i > 1
  /\ \/ d[i - 1] < 0
     \/ /\ d[i - 1] = 0
        /\ \E j \in 1..(i - 2) :
             d[j] < 0 /\ \A k \in (j + 1)..(i - 2) : d[k] = 0

\* the number whose limb differences, borrows not yet passed on, are d
BSubD(d) ==
  BNorm([i \in 1..Len(d) |-> (d[i] - (IF BBorrow(d, i) THEN 1 ELSE 0) + BASE) % BASE])

\* a - b for b <= a
BSub(a, b) ==
  IF b = <<>> THEN a ELSE BSubD([i \in 1..Len(a) |-> a[i] - Limb(b, i)])

\* a * k for a natural k up to BASE: the low and the high limb of every
\* product a[i] * k, the high ones one position up
BMulLimb(a, k) ==
  IF a = <<>> \/ k = 0 THEN <<>>
  ELSE BAdd(BNorm([i \in 1..Len(a) |-> (a[i] * k) % BASE]),
            BShift(BNorm([i \in 1..Len(a) |-> (a[i] * k) \div BASE]), 1))

\* a * b, by halving the shorter of the two
RECURSIVE BMul(_, _)
BMul(a, b) ==
  IF b = <<>> THEN <<>>
  ELSE IF Len(a) < Len(b) THEN BMul(b, a)
  ELSE IF Len(b) = 1 THEN BMulLimb(a, b[1])
  ELSE LET h  == Len(b) \div 2
           lo == BMul(a, BNorm(SubSeq(b, 1, h)))
           hi == BMul(a, SubSeq(b, h + 1, Len(b)))
       IN  \* the comparison makes TLC evaluate lo and hi before adding them
           IF lo = lo /\ hi = hi THEN BAdd(lo, BShift(hi, h)) ELSE <<>>

\* a * k for a natural k
BMulSmall(a, k) == IF k <= BASE THEN BMulLimb(a, k) ELSE BMul(a, BFromNat(k))

\* the quotient digit r \div b, for b > 0 and r < b * BASE: bracketed by
\* the leading limbs of r and b, then settled against b itself
QDigit(r, b) ==
  LET n == Len(b)
  IN  IF BLess(r, b) THEN 0
      ELSE IF n = 1 THEN (Limb(r, 2) * BASE + r[1]) \div b[1]
      ELSE LET r3 == (Limb(r, n + 1) * BASE + r[n]) * BASE + r[n - 1]
               b2 == b[n] * BASE + b[n - 1]
               lo == r3 \div (b2 + 1)
               hi == r3 \div b2
           IN  IF lo = hi THEN lo
               ELSE CHOOSE d \in lo..hi :
                      /\ BLeq(BMulLimb(b, d), r)
                      /\ d < hi => BLess(r, BMulLimb(b, d + 1))

\* one step of long division: with a limb of a brought down the remainder
\* is r, its quotient digit is d and the quotient so far is q
BDivDigit(r, b, d, q) ==
  IF d = 0 THEN [q |-> IF q = <<>> THEN <<>> ELSE <<0>> \o q, r |-> r]
  ELSE [q |-> <<d>> \o q, r |-> BSub(r, BMulLimb(b, d))]

BDivStep(r, b, q) == IF r = r THEN BDivDigit(r, b, QDigit(r, b), q) ELSE <<>>

\* long division over limbs hi down to lo of a, the higher half first; st is
\* the quotient and remainder of the limbs above hi, and the comparison
\* makes TLC evaluate it before descending
RECURSIVE BDivAt(_, _, _, _, _)
BDivAt(a, b, hi, lo, st) ==
  IF st # st THEN st
  ELSE IF hi = lo THEN BDivStep(BNorm(<<a[hi]>> \o st.r), b, st.q)
  ELSE BDivAt(a, b, (lo + hi) \div 2, lo,
              BDivAt(a, b, hi, (lo + hi) \div 2 + 1, st))

\* quotient and remainder of a by b, for b > 0
BDivMod(a, b) ==
  IF a = <<>> \/ b = <<>> THEN [q |-> <<>>, r |-> <<>>]
  ELSE BDivAt(a, b, Len(a), 1, [q |-> <<>>, r |-> <<>>])

BDiv(a, b) == BDivMod(a, b).q
BMod(a, b) == IF BLess(a, b) THEN a ELSE BDivMod(a, b).r

\* a^e, by halving e
RECURSIVE BPow(_, _)
BPow(a, e) ==
  IF e = 0 THEN <<1>>
  ELSE IF e = 1 THEN a
  ELSE LET half == BPow(a, e \div 2)
       IN  IF half = half
           THEN IF e % 2 = 0 THEN BMul(half, half) ELSE BMul(a, BMul(half, half))
           ELSE <<>>

\* 2^64 and 2^128, the moduli of u64 and u128
TWO64  == <<616, 551, 709, 73, 744, 446, 18>>
TWO128 == <<456, 211, 768, 431, 607, 374, 463, 463, 938, 920, 366, 282, 340>>


ONE_E9  == <<0, 0, 0, 1>>
U64_MAX == BSub(TWO64, <<1>>)

\* native_mint::DECIMALS of spl_token, used by price
DECIMALS == 9

----------------------------------------------------------------------------
(* price: fn price(supply: u64, lamports: u64) -> u64.  Every step is the  *)
(* step of the source, in the width of the source: the sum in u64, the     *)
(* cubes and their difference in u128, the quotient cast back to u64.  An  *)
(* overflowing step wraps in a build without overflow checks and panics in *)
(* a build with them (overflow_checks).                                     *)

\* price with the curve constant left out of the denominator
price_Unscaled(supply_in, lamports) ==
  LET sum         == BAdd(lamports, supply_in)
      numerator   == BSub(BPow(sum, 3), BPow(supply_in, 3))
      denominator == BPow(BPow(<<10>>, DECIMALS), 2)
  IN  [panic        |-> FALSE,
       sum_overflow |-> FALSE,
       pow_overflow |-> FALSE,
       sub_overflow |-> FALSE,
       val          |-> BMod(BDiv(numerator, denominator), TWO64)]

price(supply_in, lamports) ==
  LET sum          == BAdd(lamports, supply_in)
      sum_overflow == BLeq(TWO64, sum)
      end_supply   == BMod(sum, TWO64)
      end_cube     == BPow(end_supply, 3)
      cur_cube     == BPow(supply_in, 3)
      pow_overflow == BLeq(TWO128, end_cube) \/ BLeq(TWO128, cur_cube)
      end_w        == BMod(end_cube, TWO128)
      cur_w        == BMod(cur_cube, TWO128)
      sub_overflow == BLess(end_w, cur_w)
      numerator    == IF sub_overflow THEN BSub(BAdd(end_w, TWO128), cur_w)
                                      ELSE BSub(end_w, cur_w)
      denominator  == BMulSmall(BPow(BPow(<<10>>, DECIMALS), 2), 1000)
      overflow     == sum_overflow \/ pow_overflow \/ sub_overflow
      quotient     == BDiv(numerator, denominator)
      out == [panic        |-> overflow /\ overflow_checks,
              sum_overflow |-> sum_overflow,
              pow_overflow |-> pow_overflow,
              sub_overflow |-> sub_overflow,
              val          |-> BMod(quotient, TWO64)]
  IN  \* the comparisons make TLC evaluate the steps one after the other, in
      \* the order of the source
      IF /\ end_supply = end_supply
         /\ end_cube = end_cube
         /\ cur_cube = cur_cube
         /\ end_w = end_w
         /\ cur_w = cur_w
         /\ numerator = numerator
         /\ denominator = denominator
         /\ quotient = quotient
      THEN out ELSE out

----------------------------------------------------------------------------
(* The ledger the instructions run against.                                *)

PROGRAM_ID          == "solclout_program"
TOKEN_PROGRAM       == "spl_token"
OTHER_TOKEN_PROGRAM == "other_token_program"
FOREIGN_PROGRAM     == "foreign_program"
ZERO_KEY            == "zero_key"
NO_KEY              == "COption::None"
NOT_APPLICABLE      == "n/a"

\* an account of the system program, whose id is the all-zero key (the key an
\* untouched record holds in its pubkey fields); it holds lamports and no data
WALLET == "W"

\* SolcloutInstance::LEN and SolcloutCreator::LEN, the sizes accounts are
\* allocated with (the instance record itself serializes to PUBKEYS + 1)
INSTANCE_LEN == 99
CREATOR_LEN  == 100
PUBKEYS      == 96

\* Accounts holding this program's records.  A and B are owned by the
\* program; F is owned by another program, which has filled it with bytes
\* that read as an initialized record.
DataKeys == {"A", "B", "F"}
DataLen  == [k \in DataKeys |-> IF k = "B" THEN INSTANCE_LEN ELSE CREATOR_LEN]

Forged == [k1 |-> "M1", k2 |-> "B", k3 |-> TOKEN_PROGRAM, b |-> <<1, 39, 1, 255>>]

ZeroData(len) ==
  [k1 |-> ZERO_KEY, k2 |-> ZERO_KEY, k3 |-> ZERO_KEY,
   b  |-> [i \in 1..(len - PUBKEYS) |-> 0]]

\* Pubkey::create_program_address over the seeds [source, [nonce]]: a hash,
\* rejected when it lands on the curve.  OnCurve fixes which seeds of this
\* ledger are rejected.
OnCurve == {<<"B", 254>>}

ProgramAddress(source, nonce) ==
  "pda(" \o source \o "," \o ToString(nonce) \o ")"

\* spl_token accounts and mints of the ledger: the program that owns the
\* account, and the fields of the unpacked record
TokenAccounts ==
  [S_A |-> [program |-> TOKEN_PROGRAM, mint |-> "R",  owner |-> ProgramAddress("A", 255)],
   S_B |-> [program |-> TOKEN_PROGRAM, mint |-> "R",  owner |-> ProgramAddress("B", 255)],
   FR1 |-> [program |-> TOKEN_PROGRAM, mint |-> "M1", owner |-> "founder"],
   FR2 |-> [program |-> TOKEN_PROGRAM, mint |-> "M2", owner |-> "founder"],
   FRX |-> [program |-> OTHER_TOKEN_PROGRAM, mint |-> "M1", owner |-> "founder"],
   PU  |-> [program |-> TOKEN_PROGRAM, mint |-> "R",  owner |-> "PU"],
   DE  |-> [program |-> TOKEN_PROGRAM, mint |-> "M1", owner |-> "PU"]]

Mints ==
  [M1 |-> [program |-> TOKEN_PROGRAM, mint_authority |-> ProgramAddress("A", 255),
           freeze_authority |-> ProgramAddress("A", 255)],
   M2 |-> [program |-> TOKEN_PROGRAM, mint_authority |-> ProgramAddress("A", 254),
           freeze_authority |-> ProgramAddress("A", 254)],
   M3 |-> [program |-> TOKEN_PROGRAM, mint_authority |-> ProgramAddress("A", 255),
           freeze_authority |-> NO_KEY],
   M4 |-> [program |-> TOKEN_PROGRAM, mint_authority |-> NO_KEY,
           freeze_authority |-> ProgramAddress("A", 255)],
   MX |-> [program |-> OTHER_TOKEN_PROGRAM, mint_authority |-> ProgramAddress("A", 255),
           freeze_authority |-> ProgramAddress("A", 255)],
   R  |-> [program |-> TOKEN_PROGRAM, mint_authority |-> "reserve_issuer",
           freeze_authority |-> NO_KEY]]

TokenKeys == DOMAIN TokenAccounts
MintKeys  == DOMAIN Mints

\* AccountInfo::owner
OwnerOf(k) ==
  IF k \in TokenKeys THEN TokenAccounts[k].program
  ELSE IF k \in MintKeys THEN Mints[k].program
  ELSE IF k = "F" THEN FOREIGN_PROGRAM
  ELSE IF k = WALLET THEN ZERO_KEY
  ELSE PROGRAM_ID

----------------------------------------------------------------------------
(* Records and their borsh layout (state.rs).                               *)

\* bool: one byte, 0 or 1; any other byte is rejected by the deserializer
BoolByte(x) == x \in {0, 1}

\* try_from_slice_unchecked::<SolcloutInstance>: three pubkeys and one bool
\* read from the front of the data, whatever follows is ignored
DeserializeInstance(d) ==
  IF Len(d.b) < 1 \/ ~BoolByte(d.b[1]) THEN [ok |-> FALSE]
  ELSE [ok |-> TRUE, solclout_token |-> d.k1, solclout_storage |-> d.k2,
        token_program_id |-> d.k3, initialized |-> (d.b[1] = 1)]

\* try_from_slice_unchecked::<SolcloutCreator>: three pubkeys, a little-endian
\* u16, a bool and a u8
DeserializeCreator(d) ==
  IF Len(d.b) < 4 \/ ~BoolByte(d.b[3]) THEN [ok |-> FALSE]
  ELSE [ok |-> TRUE, creator_token |-> d.k1, solclout_instance |-> d.k2,
        founder_rewards_account |-> d.k3,
        founder_reward_percentage |-> d.b[1] + 256 * d.b[2],
        initialized |-> (d.b[3] = 1), authority_nonce |-> d.b[4]]

\* SolcloutInstance::serialize into the account's data: the front of the data
\* is overwritten, the rest is left as it was
SerializeInstance(d, r) ==
  [k1 |-> r.solclout_token, k2 |-> r.solclout_storage, k3 |-> r.token_program_id,
   b  |-> [d.b EXCEPT ![1] = IF r.initialized THEN 1 ELSE 0]]

\* SolcloutCreator::serialize into the account's data
SerializeCreator(d, r) ==
  [k1 |-> r.creator_token, k2 |-> r.solclout_instance,
   k3 |-> r.founder_rewards_account,
   b  |-> [d.b EXCEPT ![1] = r.founder_reward_percentage % 256,
                      ![2] = r.founder_reward_percentage \div 256,
                      ![3] = IF r.initialized THEN 1 ELSE 0,
                      ![4] = r.authority_nonce]]

\* spl_token::state::Account::unpack and Mint::unpack: the data must have the
\* packed length of the type and be initialized
AccountUnpack(k) ==
  IF k \in TokenKeys THEN [ok |-> TRUE, mint |-> TokenAccounts[k].mint,
                           owner |-> TokenAccounts[k].owner]
  ELSE [ok |-> FALSE]

MintUnpack(k) ==
  IF k \in MintKeys THEN [ok |-> TRUE, mint_authority |-> Mints[k].mint_authority,
                          freeze_authority |-> Mints[k].freeze_authority,
                          supply |-> supply[k]]
  ELSE [ok |-> FALSE]

unpack_token_account(k, token_program_id) ==
  IF OwnerOf(k) # token_program_id
  THEN [ok |-> FALSE, err |-> "IncorrectTokenProgramId"]
  ELSE IF ~AccountUnpack(k).ok THEN [ok |-> FALSE, err |-> "ExpectedAccount"]
  ELSE AccountUnpack(k)

authority_id(program_id, source_id, nonce) ==
  IF <<source_id, nonce>> \in OnCurve THEN [ok |-> FALSE]
  ELSE [ok |-> TRUE, key |-> ProgramAddress(source_id, nonce)]

\* Pubkey::find_program_address(&[seed], program_id): the address of the
\* highest bump that create_program_address accepts
RECURSIVE FindBump(_, _)
FindBump(seed, bump) ==
  IF <<seed, bump>> \in OnCurve THEN FindBump(seed, bump - 1) ELSE bump

find_program_address(seed, program_id) ==
  ProgramAddress(seed, FindBump(seed, 255))

----------------------------------------------------------------------------
(* The processor.  Each process_* operator is the outcome of one call of   *)
(* the function of that name on the current ledger: the value returned     *)
(* (rc), the data and mint supplies it leaves, and the cross-calls issued. *)
(* n is the number of accounts the instruction supplies.                    *)

\* an early return of Err(e): nothing written, nothing called
Reject(e) == [rc |-> e, data |-> data, supply |-> supply, calls |-> <<>>]

\* a panic (unwrap of None, arithmetic overflow or division by zero, todo!):
\* the host aborts the transaction
Abort == Reject("Panic")

\* InitSolcloutWrite without the initialized check
InitSolcloutWrite_Unchecked(solclout, storage_acc, solclout_storage, token_program_id) ==
  [rc     |-> "Ok",
   data   |-> [data EXCEPT ![solclout] =
                 SerializeInstance(@, [solclout_token   |-> solclout_storage.mint,
                                       solclout_storage |-> storage_acc,
                                       token_program_id |-> token_program_id,
                                       initialized      |-> TRUE])],
   supply |-> supply,
   calls  |-> <<>>]

\* InitSolcloutWrite recording the storage account's owner as the token
InitSolcloutWrite_OwnerAsToken(solclout, storage_acc, solclout_storage, token_program_id) ==
  LET cur == DeserializeInstance(data[solclout])
      solclout_instance ==
        [solclout_token   |-> solclout_storage.owner,
         solclout_storage |-> storage_acc,
         token_program_id |-> token_program_id,
         initialized      |-> TRUE]
  IN  IF ~cur.ok THEN Reject("BorshIoError")
      ELSE IF cur.initialized THEN Reject("AlreadyInitialized")
      ELSE [rc     |-> "Ok",
            data   |-> [data EXCEPT ![solclout] = SerializeInstance(@, solclout_instance)],
            supply |-> supply,
            calls  |-> <<>>]

\* process_initialize_solclout from the initialized check on
InitSolcloutWrite(solclout, storage_acc, solclout_storage, token_program_id) ==
  LET cur == DeserializeInstance(data[solclout])
      solclout_instance ==
        [solclout_token   |-> solclout_storage.mint,
         solclout_storage |-> storage_acc,
         token_program_id |-> token_program_id,
         initialized      |-> TRUE]
  IN  IF ~cur.ok THEN Reject("BorshIoError")
      ELSE IF cur.initialized THEN Reject("AlreadyInitialized")
      ELSE [rc     |-> "Ok",
            data   |-> [data EXCEPT ![solclout] = SerializeInstance(@, solclout_instance)],
            supply |-> supply,
            calls  |-> <<>>]

process_initialize_solclout(n, solclout, storage_acc, token_program_id, nonce) ==
  LET authority_key    == authority_id(PROGRAM_ID, solclout, nonce)
      solclout_storage == unpack_token_account(storage_acc, token_program_id)
  IN  IF n < 2 THEN Reject("NotEnoughAccountKeys")
      ELSE IF ~authority_key.ok THEN Reject("InvalidProgramAddress")
      ELSE IF ~solclout_storage.ok THEN Reject(solclout_storage.err)
      ELSE IF solclout_storage.owner # authority_key.key
           THEN Reject("InvalidStorageOwner")
      ELSE InitSolcloutWrite(solclout, storage_acc, solclout_storage, token_program_id)

\* InitCreatorWrite with the record written before the signer check
InitCreatorWrite_WriteFirst(account, is_signer, new_account_data) ==
  [rc     |-> IF is_signer THEN "Ok" ELSE "MissingSigner",
   data   |-> [data EXCEPT ![account] = SerializeCreator(@, new_account_data)],
   supply |-> supply,
   calls  |-> <<>>]

\* InitCreatorWrite without the signer check
InitCreatorWrite_Unsigned(account, is_signer, new_account_data) ==
  [rc     |-> "Ok",
   data   |-> [data EXCEPT ![account] = SerializeCreator(@, new_account_data)],
   supply |-> supply,
   calls  |-> <<>>]

\* InitCreatorWrite leaving the nonce out of the record
InitCreatorWrite_NonceDropped(account, is_signer, new_account_data) ==
  IF ~is_signer THEN Reject("MissingSigner")
  ELSE [rc     |-> "Ok",
        data   |-> [data EXCEPT ![account] =
                      SerializeCreator(@, [new_account_data EXCEPT !.authority_nonce = 0])],
        supply |-> supply,
        calls  |-> <<>>]

\* process_initialize_creator from the signer check on
InitCreatorWrite(account, is_signer, new_account_data) ==
  IF ~is_signer THEN Reject("MissingSigner")
  ELSE [rc     |-> "Ok",
        data   |-> [data EXCEPT ![account] = SerializeCreator(@, new_account_data)],
        supply |-> supply,
        calls  |-> <<>>]

\* process_initialize_creator from the read of the creator account to the
\* founder rewards checks
InitCreatorAccountChecks(account, token_program_id, founder_rewards_account, founder_rewards_account_data, creator_mint) ==
  LET cur == DeserializeCreator(data[account])
  IN  IF ~cur.ok THEN "BorshIoError"
      ELSE IF cur.initialized THEN "AlreadyInitialized"
      ELSE IF OwnerOf(founder_rewards_account) # token_program_id
           THEN "AccountWrongTokenProgram"
      ELSE IF founder_rewards_account_data.mint # creator_mint
           THEN "InvalidFounderRewardsAccountType"
      ELSE "Ok"

\* process_initialize_creator holding the mint and the founder rewards account
\* to spl_token instead of the token program the Instance records
process_initialize_creator_FixedTokenProgram(n, account, is_signer, solclout_instance, founder_rewards_account, creator_mint, founder_reward_percentage, nonce) ==
  LET solclout_instance_data       == DeserializeInstance(data[solclout_instance])
      founder_rewards_account_data == AccountUnpack(founder_rewards_account)
      authority                    == authority_id(PROGRAM_ID, account, nonce)
      creator_mint_data            == MintUnpack(creator_mint)
      token_program_id             == TOKEN_PROGRAM
      checks == InitCreatorAccountChecks(account, token_program_id,
                  founder_rewards_account, founder_rewards_account_data, creator_mint)
      new_account_data ==
        [creator_token             |-> creator_mint,
         solclout_instance         |-> solclout_instance,
         founder_rewards_account   |-> founder_rewards_account,
         founder_reward_percentage |-> founder_reward_percentage,
         initialized               |-> TRUE,
         authority_nonce           |-> nonce]
  IN  IF n < 2 THEN Reject("NotEnoughAccountKeys")
      ELSE IF ~solclout_instance_data.ok THEN Reject("BorshIoError")
      ELSE IF n < 3 THEN Reject("NotEnoughAccountKeys")
      ELSE IF ~founder_rewards_account_data.ok THEN Reject("InvalidAccountData")
      ELSE IF ~authority.ok THEN Reject("InvalidProgramAddress")
      ELSE IF n < 4 THEN Reject("NotEnoughAccountKeys")
      ELSE IF OwnerOf(solclout_instance) # PROGRAM_ID
           THEN Reject("InvalidSolcloutInstanceOwner")
      ELSE IF OwnerOf(creator_mint) # token_program_id
           THEN Reject("AccountWrongTokenProgram")
      ELSE IF ~creator_mint_data.ok THEN Reject("InvalidAccountData")
      ELSE IF creator_mint_data.mint_authority = NO_KEY THEN Abort
      ELSE IF creator_mint_data.mint_authority # authority.key
           THEN Reject("InvalidMintAuthority")
      ELSE IF creator_mint_data.freeze_authority = NO_KEY THEN Abort
      ELSE IF creator_mint_data.freeze_authority # authority.key
           THEN Reject("InvalidFreezeAuthority")
      ELSE IF checks # "Ok" THEN Reject(checks)
      ELSE InitCreatorWrite(account, is_signer, new_account_data)

process_initialize_creator(n, account, is_signer, solclout_instance, founder_rewards_account, creator_mint, founder_reward_percentage, nonce) ==
  LET solclout_instance_data       == DeserializeInstance(data[solclout_instance])
      founder_rewards_account_data == AccountUnpack(founder_rewards_account)
      authority                    == authority_id(PROGRAM_ID, account, nonce)
      creator_mint_data            == MintUnpack(creator_mint)
      token_program_id             == solclout_instance_data.token_program_id
      checks == InitCreatorAccountChecks(account, token_program_id,
                  founder_rewards_account, founder_rewards_account_data, creator_mint)
      new_account_data ==
        [creator_token             |-> creator_mint,
         solclout_instance         |-> solclout_instance,
         founder_rewards_account   |-> founder_rewards_account,
         founder_reward_percentage |-> founder_reward_percentage,
         initialized               |-> TRUE,
         authority_nonce           |-> nonce]
  IN  IF n < 2 THEN Reject("NotEnoughAccountKeys")
      ELSE IF ~solclout_instance_data.ok THEN Reject("BorshIoError")
      ELSE IF n < 3 THEN Reject("NotEnoughAccountKeys")
      ELSE IF ~founder_rewards_account_data.ok THEN Reject("InvalidAccountData")
      ELSE IF ~authority.ok THEN Reject("InvalidProgramAddress")
      ELSE IF n < 4 THEN Reject("NotEnoughAccountKeys")
      ELSE IF OwnerOf(solclout_instance) # PROGRAM_ID
           THEN Reject("InvalidSolcloutInstanceOwner")
      ELSE IF OwnerOf(creator_mint) # token_program_id
           THEN Reject("AccountWrongTokenProgram")
      ELSE IF ~creator_mint_data.ok THEN Reject("InvalidAccountData")
      ELSE IF creator_mint_data.mint_authority = NO_KEY THEN Abort
      ELSE IF creator_mint_data.mint_authority # authority.key
           THEN Reject("InvalidMintAuthority")
      ELSE IF creator_mint_data.freeze_authority = NO_KEY THEN Abort
      ELSE IF creator_mint_data.freeze_authority # authority.key
           THEN Reject("InvalidFreezeAuthority")
      ELSE IF checks # "Ok" THEN Reject(checks)
      ELSE InitCreatorWrite(account, is_signer, new_account_data)

\* The supplies the model follows: a mint_to that would take a supply past
\* MaxSupplyUnits * 10^9 is refused by the token program.
MaxSupplyUnits == 1
SupplyCap == BMulSmall(ONE_E9, MaxSupplyUnits)

\* founder_cut with a percentage of 0 taken as no cut at all
founder_cut_ZeroGuarded(lamports, founder_reward_percentage) ==
  LET product  == BMulSmall(lamports, 10000)
      overflow == BLeq(TWO64, product)
  IN  [panic    |-> overflow /\ overflow_checks,
       overflow |-> overflow,
       val      |-> IF founder_reward_percentage = 0 THEN <<>>
                    ELSE BDiv(BMod(product, TWO64), BFromNat(founder_reward_percentage))]

\* let founder_cut = 10000 * lamports / (founder_reward_percentage as u64)
founder_cut(lamports, founder_reward_percentage) ==
  LET product  == BMulSmall(lamports, 10000)
      overflow == BLeq(TWO64, product)
  IN  [panic    |-> founder_reward_percentage = 0 \/ (overflow /\ overflow_checks),
       overflow |-> overflow,
       val      |-> IF founder_reward_percentage = 0 THEN <<>>
                    ELSE BDiv(BMod(product, TWO64), BFromNat(founder_reward_percentage))]

\* let purchaser_cut = lamports - founder_cut
purchaser_cut(lamports, founder) ==
  LET overflow == BLess(lamports, founder)
  IN  [panic    |-> overflow /\ overflow_checks,
       overflow |-> overflow,
       val      |-> IF overflow THEN BSub(BAdd(lamports, TWO64), founder)
                                ELSE BSub(lamports, founder)]

\* spl_token::instruction::transfer(token_program_id, source, destination,
\* authority, signers, amount) and mint_to(token_program_id, mint, account,
\* owner, signers, amount), as issued through invoke_signed
Transfer(token_program_id, source, destination, authority, amount, ok) ==
  [kind |-> "transfer", program |-> token_program_id, source |-> source,
   mint |-> NOT_APPLICABLE, destination |-> destination, authority |-> authority,
   amount |-> amount, ok |-> ok]

MintTo(token_program_id, mint, account, owner, amount, ok) ==
  [kind |-> "mint_to", program |-> token_program_id, source |-> NOT_APPLICABLE,
   mint |-> mint, destination |-> account, authority |-> owner,
   amount |-> amount, ok |-> ok]

\* the token program carrying out a mint_to: the supply of the mint grows by
\* the amount, or the call fails
MintAccepted(sup, mint, amount, wanted) ==
  wanted /\ BLeq(BAdd(sup[mint], amount), SupplyCap)

Minted(sup, mint, amount, wanted) ==
  IF MintAccepted(sup, mint, amount, wanted)
  THEN [sup EXCEPT ![mint] = BAdd(@, amount)]
  ELSE sup

\* BuyCrossCalls going on to the mint_to calls whatever the transfer returned
BuyCrossCalls_TransferUnchecked(purchaser, destination, solclout_storage_account_key, token_program_id, creator_mint_key, creator_token, authority, cost, founder, buyer, cpi) ==
  LET pay_money == Transfer(OwnerOf(purchaser), purchaser,
                            solclout_storage_account_key, purchaser, cost, cpi[1])
      ok2  == MintAccepted(supply, creator_mint_key, founder, cpi[2])
      sup2 == Minted(supply, creator_mint_key, founder, cpi[2])
      give_founder_cut == MintTo(token_program_id, creator_mint_key, creator_token,
                                 authority, founder, ok2)
      ok3  == MintAccepted(sup2, creator_mint_key, buyer, cpi[3])
      sup3 == Minted(sup2, creator_mint_key, buyer, cpi[3])
      give_purchaser_cut == MintTo(token_program_id, creator_mint_key, destination,
                                   authority, buyer, ok3)
  IN  [rc |-> "Ok", data |-> data, supply |-> sup3,
       calls |-> <<pay_money, give_founder_cut, give_purchaser_cut>>]

\* process_buy_creator_coins from the transfer on.  cpi[i] is whether the
\* token program is willing to carry out the i-th cross-call.
BuyCrossCalls(purchaser, destination, solclout_storage_account_key, token_program_id, creator_mint_key, creator_token, authority, cost, founder, buyer, cpi) ==
  LET pay_money == Transfer(OwnerOf(purchaser), purchaser,
                            solclout_storage_account_key, purchaser, cost, cpi[1])
      ok2  == MintAccepted(supply, creator_mint_key, founder, cpi[2])
      sup2 == Minted(supply, creator_mint_key, founder, cpi[2])
      give_founder_cut == MintTo(token_program_id, creator_mint_key, creator_token,
                                 authority, founder, ok2)
      ok3  == MintAccepted(sup2, creator_mint_key, buyer, cpi[3])
      sup3 == Minted(sup2, creator_mint_key, buyer, cpi[3])
      give_purchaser_cut == MintTo(token_program_id, creator_mint_key, destination,
                                   authority, buyer, ok3)
  IN  IF ~pay_money.ok
      THEN [rc |-> "CrossCallFailed", data |-> data, supply |-> supply,
            calls |-> <<pay_money>>]
      ELSE [rc |-> "Ok", data |-> data, supply |-> sup3,
            calls |-> <<pay_money, give_founder_cut, give_purchaser_cut>>]

\* the four checks of process_buy_creator_coins
BuyChecks(creator_data, solclout_instance, creator, creator_mint) ==
  IF creator_data.creator_token # creator_mint THEN "InvalidCreatorMint"
  ELSE IF creator_data.solclout_instance # solclout_instance
       THEN "SolcloutInstanceMismatch"
  ELSE IF OwnerOf(creator) # PROGRAM_ID THEN "InvalidCreatorOwner"
  ELSE IF OwnerOf(solclout_instance) # PROGRAM_ID THEN "InvalidSolcloutInstanceOwner"
  ELSE "Ok"

process_buy_creator_coins(n, solclout_instance, creator, creator_mint, purchaser, destination, lamports, cpi) ==
  LET creator_mint_data      == MintUnpack(creator_mint)
      solclout_storage_account_key == find_program_address(creator, PROGRAM_ID)
      solclout_instance_data == DeserializeInstance(data[solclout_instance])
      token_program_id       == solclout_instance_data.token_program_id
      creator_data           == DeserializeCreator(data[creator])
      creator_mint_key       == creator_data.creator_token
      authority == authority_id(PROGRAM_ID, solclout_instance,
                                creator_data.authority_nonce)
      checks  == BuyChecks(creator_data, solclout_instance, creator, creator_mint)
      cost    == price(creator_mint_data.supply, lamports)
      founder == founder_cut(lamports, creator_data.founder_reward_percentage)
      buyer   == purchaser_cut(lamports, founder.val)
  IN  IF n < 5 THEN Reject("NotEnoughAccountKeys")
      ELSE IF ~creator_mint_data.ok THEN Reject("InvalidAccountData")
      ELSE IF ~solclout_instance_data.ok THEN Reject("BorshIoError")
      ELSE IF ~creator_data.ok THEN Reject("BorshIoError")
      ELSE IF ~authority.ok THEN Reject("InvalidProgramAddress")
      ELSE IF checks # "Ok" THEN Reject(checks)
      ELSE IF cost.panic THEN Abort
      ELSE IF founder.panic THEN Abort
      ELSE IF buyer.panic THEN Abort
      ELSE BuyCrossCalls(purchaser, destination, solclout_storage_account_key,
                         token_program_id, creator_mint_key,
                         creator_data.creator_token, authority.key,
                         cost.val, founder.val, buyer.val, cpi)

\* process_sell_creator_coins: todo!()
process_sell_creator_coins(lamports) == Abort

----------------------------------------------------------------------------
(* Instructions submitted to process_instruction.                          *)

Nonces           == {254, 255}
Percentages      == {0, 256, 257, 1000, 10000}
LamportVals      == {<<>>, ONE_E9, U64_MAX}
TokenProgramArgs == {TOKEN_PROGRAM, OTHER_TOKEN_PROGRAM}
StorageArgs      == {"S_A", "S_B", "FRX", "M1"}
FounderArgs      == {"FR1", "FR2", "FRX", "M1"}
MintArgs         == {"M1", "M2", "M3", "M4", "MX", "PU", WALLET}
PurchaserArgs    == {"PU"}
DestinationArgs  == {"DE", "FR1"}
CpiOutcomes      == {<<FALSE, FALSE, FALSE>>, <<TRUE, FALSE, FALSE>>,
                     <<TRUE, TRUE, FALSE>>, <<TRUE, FALSE, TRUE>>,
                     <<TRUE, TRUE, TRUE>>}

Init ==
  /\ data = [k \in DataKeys |-> IF k = "F" THEN Forged ELSE ZeroData(DataLen[k])]
  /\ supply = [m \in MintKeys |-> <<>>]
  /\ result = "None"
  /\ calls = <<>>
  /\ last = [op |-> "None"]
  /\ overflow_checks \in BOOLEAN
  /\ price_call = [called |-> FALSE]

\* The host runs one instruction at a time: it invokes process_instruction
\* when no invocation is in progress and applies the outcome of the call.
\* result, calls and last describe the invocation in progress.
Idle == result = "None"

Apply(out, instruction) ==
  /\ data' = out.data
  /\ supply' = out.supply
  /\ result' = out.rc
  /\ calls' = out.calls
  /\ last' = instruction
  /\ UNCHANGED <<overflow_checks, price_call>>

\* SolcloutInstruction::try_from_slice fails on the instruction data
Undecodable ==
  /\ Idle
  /\ Apply(Reject("BorshIoError"), [op |-> "Undecodable"])

InitializeSolclout ==
  /\ Idle
  /\ \E n \in 0..2, solclout \in DataKeys, storage_acc \in StorageArgs,
     token_program_id \in TokenProgramArgs, nonce \in Nonces :
    /\ n < 2 => /\ storage_acc = "S_A"
                /\ token_program_id = TOKEN_PROGRAM
                /\ nonce = 255
    /\ Apply(process_initialize_solclout(n, solclout, storage_acc,
                                         token_program_id, nonce),
             [op |-> "InitializeSolclout",
              accounts |-> SubSeq(<<solclout, storage_acc>>, 1, n),
              token_program_id |-> token_program_id, nonce |-> nonce])

InitializeCreator ==
  /\ Idle
  /\ \E n \in 0..4, account \in DataKeys, is_signer \in BOOLEAN,
     solclout_instance \in DataKeys, founder_rewards_account \in FounderArgs,
     creator_mint \in MintArgs, founder_reward_percentage \in Percentages,
     nonce \in Nonces :
    /\ n < 4 => /\ creator_mint = "M1"
                /\ is_signer
                /\ founder_reward_percentage = 1000
                /\ nonce = 255
    /\ n < 3 => founder_rewards_account = "FR1"
    /\ n < 2 => solclout_instance = "B"
    /\ n < 1 => account = "A"
    /\ Apply(process_initialize_creator(n, account, is_signer, solclout_instance,
               founder_rewards_account, creator_mint,
               founder_reward_percentage, nonce),
             [op |-> "InitializeCreator",
              accounts |-> SubSeq(<<account, solclout_instance,
                                    founder_rewards_account, creator_mint>>, 1, n),
              is_signer |-> is_signer,
              founder_reward_percentage |-> founder_reward_percentage,
              nonce |-> nonce])

BuyCreatorCoins ==
  /\ Idle
  /\ \E n \in 0..5, solclout_instance \in DataKeys, creator \in DataKeys,
     creator_mint \in MintArgs, purchaser \in PurchaserArgs,
     destination \in DestinationArgs, lamports \in LamportVals,
     cpi \in CpiOutcomes :
    /\ n < 5 => /\ solclout_instance = "B"
                /\ creator = "A"
                /\ creator_mint = "M1"
                /\ destination = "DE"
                /\ lamports = ONE_E9
                /\ cpi = <<TRUE, TRUE, TRUE>>
    /\ Apply(process_buy_creator_coins(n, solclout_instance, creator, creator_mint,
               purchaser, destination, lamports, cpi),
             [op |-> "BuyCreatorCoins",
              accounts |-> SubSeq(<<solclout_instance, creator, creator_mint,
                                    purchaser, destination>>, 1, n),
              lamports |-> lamports,
              supply |-> IF creator_mint \in MintKeys THEN supply[creator_mint]
                         ELSE <<>>])

SellCreatorCoins ==
  /\ Idle
  /\ \E lamports \in LamportVals :
    Apply(process_sell_creator_coins(lamports),
          [op |-> "SellCreatorCoins", lamports |-> lamports])

\* the host is done with the invocation; the processor keeps nothing between
\* calls
Complete ==
  /\ ~Idle
  /\ result' = "None"
  /\ calls' = <<>>
  /\ last' = [op |-> "None"]
  /\ UNCHANGED <<data, supply, overflow_checks, price_call>>

Next ==
  \/ Complete
  \/ Undecodable
  \/ InitializeSolclout
  \/ InitializeCreator
  \/ BuyCreatorCoins
  \/ SellCreatorCoins

Spec == Init /\ [][Next]_vars

----------------------------------------------------------------------------
(* price as a function of its own: every pair of inputs of PriceInputs is  *)
(* put through it.                                                          *)

MaxMantissa == 3
PriceInputs ==
  {BMulSmall(BPow(<<10>>, e), m) : m \in 0..MaxMantissa, e \in {0, 3, 6, 9}}

PriceCall ==
  /\ ~price_call.called
  /\ \E s \in PriceInputs, l \in PriceInputs :
       price_call' = [called |-> TRUE, supply |-> s, lamports |-> l,
                      out |-> price(s, l)]
  /\ UNCHANGED <<data, supply, result, calls, last, overflow_checks>>

PriceNext == PriceCall

PriceSpec == Init /\ [][PriceNext]_vars

\* price over the whole of its u64 domain: the inputs of PriceInputs, the two
\* values around the cube root of 2^128 and the largest u64
CUBE_ROOT_U128 == <<331, 658, 463, 981, 6>>
WideInputs ==
  PriceInputs \cup {CUBE_ROOT_U128, BAdd(CUBE_ROOT_U128, <<1>>), U64_MAX}

PriceCallWide ==
  /\ ~price_call.called
  /\ \E s \in WideInputs, l \in WideInputs :
       price_call' = [called |-> TRUE, supply |-> s, lamports |-> l,
                      out |-> price(s, l)]
  /\ UNCHANGED <<data, supply, result, calls, last, overflow_checks>>

PriceWideNext == PriceCallWide

PriceWideSpec == Init /\ [][PriceWideNext]_vars

----------------------------------------------------------------------------
(* Properties.                                                              *)

\* the records an account's data reads as
InstanceInitialized(d) ==
  DeserializeInstance(d).ok /\ DeserializeInstance(d).initialized

CreatorInitialized(d) ==
  DeserializeCreator(d).ok /\ DeserializeCreator(d).initialized

\* errors returned by the checks and the decoding steps of the processor
ValidationErrors ==
  {"IncorrectTokenProgramId", "ExpectedAccount", "InvalidProgramAddress",
   "InvalidStorageOwner", "AlreadyInitialized", "InvalidSolcloutInstanceOwner",
   "AccountWrongTokenProgram", "InvalidMintAuthority", "InvalidFreezeAuthority",
   "InvalidFounderRewardsAccountType", "MissingSigner", "InvalidCreatorMint",
   "SolcloutInstanceMismatch", "InvalidCreatorOwner",
   "BorshIoError", "NotEnoughAccountKeys", "InvalidAccountData"}

\* the invocation in progress is a BuyCreatorCoins with all five accounts
BuyInProgress == last.op = "BuyCreatorCoins" /\ Len(last.accounts) = 5

\* ... of a creator's own mint, on an initialized Creator of an initialized
\* Instance (BuyCreatorCoins writes no record, so the records read here are
\* the ones the call read)
BuyOfValidAccounts ==
  /\ BuyInProgress
  /\ OwnerOf(last.accounts[1]) = PROGRAM_ID
  /\ OwnerOf(last.accounts[2]) = PROGRAM_ID
  /\ last.accounts[1] # last.accounts[2]
  /\ InstanceInitialized(data[last.accounts[1]])
  /\ CreatorInitialized(data[last.accounts[2]])
  /\ DeserializeCreator(data[last.accounts[2]]).solclout_instance = last.accounts[1]
  /\ last.accounts[3] \in MintKeys

\* ... whose checks have passed: the call went on to compute the price and
\* the cuts
BuyComputed ==
  /\ BuyOfValidAccounts
  /\ result \in {"Ok", "CrossCallFailed", "Panic"}

\* C1: with an initialized Instance and a Creator initialized with
\* founder_reward_percentage = 1000, a BuyCreatorCoins of 1_000_000_000
\* against the creator's mint at supply 0 transfers 1_000_000 from the
\* purchaser to the Instance's reserve storage, mints 10_000_000 to the
\* founder rewards account and 990_000_000 to the destination (when the call
\* passes its checks and the token program carries out the transfer).
C1_EndToEndPurchase ==
  ( /\ BuyComputed
    /\ DeserializeCreator(data[last.accounts[2]]).founder_reward_percentage = 1000
    /\ last.lamports = ONE_E9
    /\ last.supply = <<>>
    /\ result # "CrossCallFailed" )
  => /\ result = "Ok"
     /\ Len(calls) = 3
     /\ calls[1].kind = "transfer"
     /\ calls[1].source = last.accounts[4]
     /\ calls[1].destination =
          DeserializeInstance(data[last.accounts[1]]).solclout_storage
     /\ calls[1].amount = <<0, 0, 1>>
     /\ calls[2].kind = "mint_to"
     /\ calls[2].destination =
          DeserializeCreator(data[last.accounts[2]]).founder_rewards_account
     /\ calls[2].amount = <<0, 0, 10>>
     /\ calls[3].kind = "mint_to"
     /\ calls[3].destination = last.accounts[5]
     /\ calls[3].amount = <<0, 0, 990>>

\* C2: in a BuyCreatorCoins on a Creator with a non-zero
\* founder_reward_percentage, neither cut wraps around and
\* founder_cut + purchaser_cut = lamports.
C2_CutsSumToLamports ==
  ( /\ BuyComputed
    /\ DeserializeCreator(data[last.accounts[2]]).founder_reward_percentage # 0 )
  => LET pct     == DeserializeCreator(data[last.accounts[2]]).founder_reward_percentage
         founder == founder_cut(last.lamports, pct)
         buyer   == purchaser_cut(last.lamports, founder.val)
     IN  /\ ~founder.overflow
         /\ ~buyer.overflow
         /\ BAdd(founder.val, buyer.val) = last.lamports
         /\ Len(calls) = 3 => /\ calls[2].amount = founder.val
                              /\ calls[3].amount = buyer.val

\* C3: a BuyCreatorCoins one of whose cross-calls failed does not return Ok.
C3_BuyIsAtomic ==
  ( /\ BuyOfValidAccounts
    /\ \E i \in 1..Len(calls) : ~calls[i].ok )
  => result # "Ok"

\* C4: an instruction that returns a validation or decode error leaves every
\* record and every supply as it was and has issued no cross-call.
C4_RejectedLeavesNoTrace ==
  [][ result' \in ValidationErrors
        => /\ data' = data
           /\ supply' = supply
           /\ calls' = <<>> ]_vars

C4_Witness ==
  /\ last.op = "InitializeCreator"
  /\ result = "MissingSigner"
  /\ InstanceInitialized(data[last.accounts[2]])

\* C5: a record whose initialized flag is true keeps it true in every step.
C5_InitializedMonotone ==
  [][ \A k \in DataKeys :
        /\ InstanceInitialized(data[k]) => InstanceInitialized(data'[k])
        /\ CreatorInitialized(data[k]) => CreatorInitialized(data'[k]) ]_vars

\* C6: no step changes a field of an initialized Instance or Creator record.
C6_InitializedRecordsFrozen ==
  [][ \A k \in DataKeys :
        /\ InstanceInitialized(data[k])
             => DeserializeInstance(data'[k]) = DeserializeInstance(data[k])
        /\ CreatorInitialized(data[k])
             => DeserializeCreator(data'[k]) = DeserializeCreator(data[k]) ]_vars

\* C7: invoking InitializeSolclout again on the record it has just initialized
\* yields AlreadyInitialized, and an InitializeSolclout of an initialized
\* record that names the record's own storage, token program and authority
\* never yields anything else.
C7_SecondInitializeRejected ==
  last.op = "InitializeSolclout" /\ Len(last.accounts) = 2
  => LET solclout == last.accounts[1]
         rec      == DeserializeInstance(data[solclout])
         again    == process_initialize_solclout(2, solclout, last.accounts[2],
                       last.token_program_id, last.nonce)
     IN  /\ result = "Ok" => again.rc = "AlreadyInitialized"
         /\ ( /\ result # "Ok"
              /\ InstanceInitialized(data[solclout])
              /\ rec.solclout_storage = last.accounts[2]
              /\ rec.token_program_id = last.token_program_id
              /\ authority_id(PROGRAM_ID, solclout, last.nonce).ok
              /\ AccountUnpack(last.accounts[2]).ok
              /\ AccountUnpack(last.accounts[2]).owner =
                   authority_id(PROGRAM_ID, solclout, last.nonce).key )
            => result = "AlreadyInitialized"

C7_Witness ==
  /\ last.op = "InitializeSolclout"
  /\ result = "AlreadyInitialized"
  /\ DeserializeInstance(data[last.accounts[1]]).solclout_storage = last.accounts[2]
  /\ DeserializeInstance(data[last.accounts[1]]).token_program_id = last.token_program_id

\* the invocation in progress is an InitializeCreator with all four accounts
\* whose creator account has not signed
UnsignedInitializeCreator ==
  /\ last.op = "InitializeCreator"
  /\ Len(last.accounts) = 4
  /\ ~last.is_signer

\* C8 as stated: an InitializeCreator whose creator account is not a signer
\* returns MissingSigner whatever the other accounts are.
C8_MissingSignerRegardless ==
  UnsignedInitializeCreator => result = "MissingSigner"

\* C8 amended: an InitializeCreator whose creator account is not a signer
\* never succeeds, and it returns MissingSigner whenever the same instruction
\* would have succeeded had the account signed.
C8_MissingSignerLast ==
  UnsignedInitializeCreator
  => /\ result # "Ok"
     /\ process_initialize_creator(4, last.accounts[1], TRUE, last.accounts[2],
          last.accounts[3], last.accounts[4],
          last.founder_reward_percentage, last.nonce).rc = "Ok"
        => result = "MissingSigner"

C8_Witness ==
  /\ UnsignedInitializeCreator
  /\ result = "MissingSigner"

\* C9: a BuyCreatorCoins whose mint is not the Creator's creator_token, all
\* other accounts being valid, returns InvalidCreatorMint and issues no
\* cross-call.
C9_WrongMintRejected ==
  ( /\ BuyOfValidAccounts
    /\ DeserializeCreator(data[last.accounts[2]]).creator_token # last.accounts[3] )
  => /\ result = "InvalidCreatorMint"
     /\ calls = <<>>

\* 1000 * unit^2 for unit = 10^9
CurveScale == <<0, 0, 0, 0, 0, 0, 0, 1>>

\* C10: price(s, q) is the floor of ((s + q)^3 - s^3) / (1000 * unit^2), that
\* is, the one p with p * scale <= (s + q)^3 - s^3 < (p + 1) * scale;
\* price(0, 10^9) = 1_000_000 and price(10^9, 10^9) = 7_000_000.
C10_PriceIsCurveIntegral ==
  price_call.called
  => LET s    == price_call.supply
         q    == price_call.lamports
         p    == price_call.out.val
         area == BSub(BPow(BAdd(s, q), 3), BPow(s, 3))
     IN  /\ ~price_call.out.panic
         /\ BLeq(BMul(p, CurveScale), area)
         /\ BLess(area, BMul(BAdd(p, <<1>>), CurveScale))
         /\ (s = <<>> /\ q = ONE_E9) => p = <<0, 0, 1>>
         /\ (s = ONE_E9 /\ q = ONE_E9) => p = <<0, 0, 7>>

C10_Witness ==
  /\ price_call.called
  /\ price_call.supply = ONE_E9
  /\ price_call.lamports = ONE_E9
  /\ price_call.out.val = <<0, 0, 7>>

\* C11: price(s, 0) returns 0 for every s, and wherever price returns for two
\* inputs that differ in the supply only, or in the quantity only, the larger
\* input does not get the smaller price.
C11_PriceMonotone ==
  price_call.called
  => LET s == price_call.supply
         q == price_call.lamports
         p == price_call.out
     IN  /\ q = <<>> => ~p.panic /\ p.val = <<>>
         /\ \A x \in WideInputs :
              /\ (~p.panic /\ ~price(x, q).panic /\ BLeq(s, x))
                   => BLeq(p.val, price(x, q).val)
              /\ (~p.panic /\ ~price(s, x).panic /\ BLeq(q, x))
                   => BLeq(p.val, price(s, x).val)

\* C12: no step of price overflows: not the sum in u64, not a cube in u128,
\* not the difference of the cubes.
C12_PriceNeverOverflows ==
  price_call.called
  => /\ ~price_call.out.sum_overflow
     /\ ~price_call.out.pow_overflow
     /\ ~price_call.out.sub_overflow

\* the invocation in progress is an InitializeSolclout with both accounts
InitializeSolcloutInProgress ==
  last.op = "InitializeSolclout" /\ Len(last.accounts) = 2

\* C13: an InitializeSolclout whose storage account unpacks and is not owned
\* by authority_id(program, instance, nonce) returns InvalidStorageOwner and
\* none succeeds without that ownership; and every record of the program that
\* reads as an initialized Instance names as solclout_storage a token account
\* owned by an authority derived from the record's own key.
C13_StorageOwnedByAuthority ==
  /\ InitializeSolcloutInProgress
       => LET authority_key    == authority_id(PROGRAM_ID, last.accounts[1], last.nonce)
              solclout_storage == unpack_token_account(last.accounts[2],
                                                       last.token_program_id)
          IN  /\ ( /\ authority_key.ok
                   /\ solclout_storage.ok
                   /\ solclout_storage.owner # authority_key.key )
                 => result = "InvalidStorageOwner"
              /\ result = "Ok"
                 => /\ authority_key.ok
                    /\ solclout_storage.ok
                    /\ solclout_storage.owner = authority_key.key
  /\ \A k \in DataKeys :
       (OwnerOf(k) = PROGRAM_ID /\ InstanceInitialized(data[k]))
       => LET storage_acc == DeserializeInstance(data[k]).solclout_storage
          IN  /\ storage_acc \in TokenKeys
              /\ \E nonce \in 0..255 :
                   /\ authority_id(PROGRAM_ID, k, nonce).ok
                   /\ AccountUnpack(storage_acc).owner =
                        authority_id(PROGRAM_ID, k, nonce).key

\* C14: a step in which InitializeSolclout succeeds starts from a record that
\* reads as uninitialized and leaves it reading as solclout_token = the mint
\* of the storage account, solclout_storage = the storage account's key,
\* token_program_id = the argument, initialized = true; it changes no other
\* record and no supply, and issues no cross-call.
C14_InitializeSolcloutEffect ==
  [][ (last'.op = "InitializeSolclout" /\ result' = "Ok")
        => LET solclout    == last'.accounts[1]
               storage_acc == last'.accounts[2]
           IN  /\ DeserializeInstance(data[solclout]).ok
               /\ ~DeserializeInstance(data[solclout]).initialized
               /\ DeserializeInstance(data'[solclout]) =
                    [ok               |-> TRUE,
                     solclout_token   |-> AccountUnpack(storage_acc).mint,
                     solclout_storage |-> storage_acc,
                     token_program_id |-> last'.token_program_id,
                     initialized      |-> TRUE]
               /\ \A k \in DataKeys \ {solclout} : data'[k] = data[k]
               /\ supply' = supply
               /\ calls' = <<>> ]_vars

C14_Witness ==
  /\ InitializeSolcloutInProgress
  /\ result = "Ok"
  /\ DeserializeInstance(data[last.accounts[1]]).solclout_token = "R"
  /\ DeserializeInstance(data[last.accounts[1]]).solclout_storage = last.accounts[2]
  /\ DeserializeInstance(data[last.accounts[1]]).initialized

\* C15: a step in which InitializeCreator succeeds leaves the creator account
\* reading as creator_token = the mint's key, solclout_instance = the
\* instance's key, founder_rewards_account = the founder rewards account's
\* key, founder_reward_percentage and authority_nonce = the arguments,
\* initialized = true; it changes no other record and no supply.
C15_InitializeCreatorEffect ==
  [][ (last'.op = "InitializeCreator" /\ result' = "Ok")
        => LET account == last'.accounts[1]
           IN  /\ DeserializeCreator(data'[account]) =
                    [ok                        |-> TRUE,
                     creator_token             |-> last'.accounts[4],
                     solclout_instance         |-> last'.accounts[2],
                     founder_rewards_account   |-> last'.accounts[3],
                     founder_reward_percentage |-> last'.founder_reward_percentage,
                     initialized               |-> TRUE,
                     authority_nonce           |-> last'.nonce]
               /\ \A k \in DataKeys \ {account} : data'[k] = data[k]
               /\ supply' = supply
               /\ calls' = <<>> ]_vars

C15_Witness ==
  /\ last.op = "InitializeCreator"
  /\ result = "Ok"
  /\ last.founder_reward_percentage = 1000
  /\ last.nonce = 255
  /\ DeserializeCreator(data[last.accounts[1]]).founder_reward_percentage = 1000
  /\ DeserializeCreator(data[last.accounts[1]]).authority_nonce = 255
  /\ DeserializeCreator(data[last.accounts[1]]).creator_token = "M1"

\* the step is an InitializeCreator with all four accounts
InitializeCreatorStep ==
  last'.op = "InitializeCreator" /\ Len(last'.accounts) = 4

\* ... that gets as far as the checks of the mint's authorities
ReachesAuthorityChecks ==
  /\ InitializeCreatorStep
  /\ DeserializeInstance(data[last'.accounts[2]]).ok
  /\ AccountUnpack(last'.accounts[3]).ok
  /\ authority_id(PROGRAM_ID, last'.accounts[1], last'.nonce).ok
  /\ OwnerOf(last'.accounts[2]) = PROGRAM_ID
  /\ OwnerOf(last'.accounts[4]) =
       DeserializeInstance(data[last'.accounts[2]]).token_program_id
  /\ MintUnpack(last'.accounts[4]).ok

\* C16: an InitializeCreator that reaches the checks of the mint's authorities
\* returns InvalidMintAuthority when the mint authority is absent or is not
\* authority_id(program, creator, nonce), and otherwise InvalidFreezeAuthority
\* when the freeze authority is absent or is not that key; one that succeeds
\* has a mint with both authorities equal to that key.
C16_MintAuthoritiesChecked ==
  [][ LET authority == authority_id(PROGRAM_ID, last'.accounts[1], last'.nonce)
          mint      == MintUnpack(last'.accounts[4])
      IN  /\ (ReachesAuthorityChecks /\ mint.mint_authority # authority.key)
               => result' = "InvalidMintAuthority"
          /\ ( /\ ReachesAuthorityChecks
               /\ mint.mint_authority = authority.key
               /\ mint.freeze_authority # authority.key )
               => result' = "InvalidFreezeAuthority"
          /\ (InitializeCreatorStep /\ result' = "Ok")
               => /\ mint.mint_authority = authority.key
                  /\ mint.freeze_authority = authority.key ]_vars

\* C17: the transfer of a BuyCreatorCoins moves price(mint.supply, lamports)
\* from the purchaser account to the account the Instance records as its
\* solclout_storage.
C17_TransferToInstanceStorage ==
  (BuyOfValidAccounts /\ Len(calls) >= 1)
  => /\ calls[1].kind = "transfer"
     /\ calls[1].source = last.accounts[4]
     /\ calls[1].amount = price(last.supply, last.lamports).val
     /\ calls[1].destination =
          DeserializeInstance(data[last.accounts[1]]).solclout_storage

\* C18: of the two mint_to calls of a BuyCreatorCoins, the one for the
\* founder's cut names the Creator's founder_rewards_account as destination
\* and the one for the purchaser's cut names the destination account.
C18_MintDestinations ==
  (BuyOfValidAccounts /\ Len(calls) = 3)
  => /\ calls[2].kind = "mint_to"
     /\ calls[2].destination =
          DeserializeCreator(data[last.accounts[2]]).founder_rewards_account
     /\ calls[3].kind = "mint_to"
     /\ calls[3].destination = last.accounts[5]

\* C19: the authority of both mint_to calls of a BuyCreatorCoins is
\* authority_id(program, creator, Creator.authority_nonce), the mint
\* authority InitializeCreator required of the creator's mint.
C19_MintSignerIsCreatorAuthority ==
  (BuyOfValidAccounts /\ Len(calls) = 3)
  => LET creator_data == DeserializeCreator(data[last.accounts[2]])
         authority    == authority_id(PROGRAM_ID, last.accounts[2],
                                      creator_data.authority_nonce)
     IN  /\ authority.ok
         /\ calls[2].authority = authority.key
         /\ calls[3].authority = authority.key
         /\ calls[2].authority = MintUnpack(last.accounts[3]).mint_authority

InitializeCreatorDecodes ==
  /\ InitializeCreatorStep
  /\ DeserializeInstance(data[last'.accounts[2]]).ok
  /\ DeserializeCreator(data[last'.accounts[1]]).ok
  /\ AccountUnpack(last'.accounts[3]).ok
  /\ MintUnpack(last'.accounts[4]).ok
  /\ authority_id(PROGRAM_ID, last'.accounts[1], last'.nonce).ok

\* the error of the first violated condition of such a step, in the order
\* InvalidSolcloutInstanceOwner, AccountWrongTokenProgram (mint),
\* InvalidMintAuthority, InvalidFreezeAuthority, AlreadyInitialized,
\* AccountWrongTokenProgram (founder rewards), InvalidFounderRewardsAccountType,
\* MissingSigner; Ok when none is violated
FirstViolatedCondition ==
  LET account          == last'.accounts[1]
      solclout_instance == last'.accounts[2]
      founder           == last'.accounts[3]
      creator_mint      == last'.accounts[4]
      token_program_id  == DeserializeInstance(data[solclout_instance]).token_program_id
      authority         == authority_id(PROGRAM_ID, account, last'.nonce).key
  IN  IF OwnerOf(solclout_instance) # PROGRAM_ID THEN "InvalidSolcloutInstanceOwner"
      ELSE IF OwnerOf(creator_mint) # token_program_id THEN "AccountWrongTokenProgram"
      ELSE IF MintUnpack(creator_mint).mint_authority # authority
           THEN "InvalidMintAuthority"
      ELSE IF MintUnpack(creator_mint).freeze_authority # authority
           THEN "InvalidFreezeAuthority"
      ELSE IF DeserializeCreator(data[account]).initialized THEN "AlreadyInitialized"
      ELSE IF OwnerOf(founder) # token_program_id THEN "AccountWrongTokenProgram"
      ELSE IF AccountUnpack(founder).mint # creator_mint
           THEN "InvalidFounderRewardsAccountType"
      ELSE IF ~last'.is_signer THEN "MissingSigner"
      ELSE "Ok"

\* C21: an InitializeCreator all of whose accounts decode returns the error of
\* the first violated condition in the order InvalidSolcloutInstanceOwner,
\* AccountWrongTokenProgram (mint), InvalidMintAuthority,
\* InvalidFreezeAuthority, AlreadyInitialized, AccountWrongTokenProgram
\* (founder rewards), InvalidFounderRewardsAccountType, MissingSigner, and
\* succeeds when none is violated.
C21_FirstViolatedConditionReturned ==
  [][ InitializeCreatorDecodes => result' = FirstViolatedCondition ]_vars

\* the invocation in progress is a BuyCreatorCoins whose accounts decode and
\* whose four checks pass
BuyPassesValidation ==
  /\ BuyInProgress
  /\ MintUnpack(last.accounts[3]).ok
  /\ DeserializeInstance(data[last.accounts[1]]).ok
  /\ DeserializeCreator(data[last.accounts[2]]).ok
  /\ authority_id(PROGRAM_ID, last.accounts[1],
                  DeserializeCreator(data[last.accounts[2]]).authority_nonce).ok
  /\ BuyChecks(DeserializeCreator(data[last.accounts[2]]), last.accounts[1],
               last.accounts[2], last.accounts[3]) = "Ok"

\* C22: InitializeCreator with founder_reward_percentage = 0 returns what the
\* same instruction returns with a percentage of 1000 (the percentage is not
\* examined), and a BuyCreatorCoins that passes validation on a Creator whose
\* founder_reward_percentage is 0 aborts without having issued a cross-call.
C22_ZeroPercentageUnguarded ==
  [][ /\ (InitializeCreatorStep /\ last'.founder_reward_percentage = 0)
           => result' = process_initialize_creator(4, last'.accounts[1],
                          last'.is_signer, last'.accounts[2], last'.accounts[3],
                          last'.accounts[4], 1000, last'.nonce).rc
      /\ ( /\ BuyPassesValidation'
           /\ DeserializeCreator(data'[last'.accounts[2]]).founder_reward_percentage = 0 )
           => /\ result' = "Panic"
              /\ calls' = <<>>
              /\ supply' = supply ]_vars

\* a purchase of 10^9 at supply 0, where no step overflows, on a Creator that
\* InitializeCreator initialized with a percentage of 0: the abort is the
\* division by zero
C22_Witness ==
  /\ BuyPassesValidation
  /\ CreatorInitialized(data[last.accounts[2]])
  /\ InstanceInitialized(data[last.accounts[1]])
  /\ last.accounts[1] # last.accounts[2]
  /\ DeserializeCreator(data[last.accounts[2]]).founder_reward_percentage = 0
  /\ last.lamports = ONE_E9
  /\ last.supply = <<>>
  /\ ~price(last.supply, last.lamports).panic
  /\ ~founder_cut(last.lamports, 0).overflow
  /\ result = "Panic"

\* C23: in a BuyCreatorCoins that passes validation on an initialized Creator
\* of an initialized Instance, with a non-zero founder_reward_percentage, founder_cut is at most lamports,
\* lamports - founder_cut does not underflow, and the two mint_to calls
\* together mint at most lamports.
C23_FounderCutWithinLamports ==
  ( /\ BuyOfValidAccounts
    /\ BuyPassesValidation
    /\ DeserializeCreator(data[last.accounts[2]]).founder_reward_percentage # 0 )
  => LET pct     == DeserializeCreator(data[last.accounts[2]]).founder_reward_percentage
         founder == founder_cut(last.lamports, pct)
         buyer   == purchaser_cut(last.lamports, founder.val)
     IN  /\ BLeq(founder.val, last.lamports)
         /\ ~buyer.overflow
         /\ Len(calls) = 3
              => BLeq(BAdd(calls[2].amount, calls[3].amount), last.lamports)

\* C24: cross-calls are issued by BuyCreatorCoins only, and only when its
\* accounts decode and its four checks pass; the first is the transfer, and
\* the two mint_to calls, for founder_cut and then for purchaser_cut, follow
\* it only when the transfer succeeded: a failed transfer ends the call with
\* an error, no mint_to issued and the supply of the mint as it was.
C24_CrossCallsAfterChecksInOrder ==
  /\ last.op # "BuyCreatorCoins" => calls = <<>>
  /\ (last.op = "BuyCreatorCoins" /\ calls # <<>>)
       => LET pct     == DeserializeCreator(data[last.accounts[2]]).founder_reward_percentage
              founder == founder_cut(last.lamports, pct)
              buyer   == purchaser_cut(last.lamports, founder.val)
          IN  /\ BuyPassesValidation
              /\ calls[1].kind = "transfer"
              /\ Len(calls) \in {1, 3}
              /\ Len(calls) = 3
                   => /\ calls[1].ok
                      /\ calls[2].kind = "mint_to"
                      /\ calls[2].amount = founder.val
                      /\ calls[3].kind = "mint_to"
                      /\ calls[3].amount = buyer.val
              /\ ~calls[1].ok
                   => /\ Len(calls) = 1
                      /\ result = "CrossCallFailed"
                      /\ supply[last.accounts[3]] = last.supply

\* a purchase whose transfer the token program turned down
C24_Witness ==
  /\ BuyPassesValidation
  /\ CreatorInitialized(data[last.accounts[2]])
  /\ Len(calls) = 1
  /\ calls[1].kind = "transfer"
  /\ ~calls[1].ok
  /\ result = "CrossCallFailed"

====
